---- MODULE Spec2Model ----
(***************************************************************************)
(* SkColorSpaceXformer (src/core/SkColorSpaceXformer.cpp): retargeting of  *)
(* colors, images, shaders and paints from sRGB to a destination color     *)
(* space.  Objects live in heaps (sequences); a reference is an index into *)
(* its heap and 0 is nullptr.  Every apply overload is one operator that   *)
(* threads a call context x = [S, I, F, L, log, cc, ic, ret, st] through   *)
(* the calls it makes:                                                     *)
(*   S, I, F, L  the shader, image, color-filter and draw-looper heaps     *)
(*   log         one entry per shader apply call that ended               *)
(*   cc          <<call site, batch>> per fFromSRGB->apply, in call order   *)
(*   ic          the images handed to makeColorSpace, in call order        *)
(*   ret, st     the value returned and how the call ended:                *)
(*               "ok" it returned, "abort" a fatal SkASSERT, "crash" a     *)
(*               null sk_sp was dereferenced, "next" (internal) the branch *)
(*               fell through to the next test                             *)
(***************************************************************************)
EXTENDS Integers, Sequences, FiniteSets, TLC

VARIABLES SK_DEBUG, fDst, fFromSRGB, shaders, images, filters, loopers, op, nops, seen

vars == <<SK_DEBUG, fDst, fFromSRGB, shaders, images, filters, loopers, op, nops, seen>>

\* Number of apply calls made on one converter in a run.
MaxOps == 2

\* Longest color batch a caller hands to the batch overload of apply.
MaxBatch == 2

RECURSIVE apply_shader(_, _, _)
RECURSIVE UnfoldShader(_, _, _)

(***************************************************************************)
(* Colors: SkColor is 0xAARRGGBB; it is kept as <<a, r, g, b>>.            *)
(***************************************************************************)
SkColorSetARGB(a, r, g, b) == <<a, r, g, b>>

\* color & 0xffffff
RGBBits(c) == c[2] * 65536 + c[3] * 256 + c[4]

Black            == SkColorSetARGB(255, 0, 0, 0)
TransparentBlack == SkColorSetARGB(0, 0, 0, 0)
HalfBlack        == SkColorSetARGB(128, 0, 0, 0)
Red              == SkColorSetARGB(255, 255, 0, 0)
Green            == SkColorSetARGB(255, 0, 255, 0)
Blue             == SkColorSetARGB(255, 0, 0, 255)
FaintBlue        == SkColorSetARGB(0, 0, 0, 1)
Grey             == SkColorSetARGB(128, 100, 100, 100)

TestColors == {Black, HalfBlack, Red, FaintBlue, Grey}

ColorSpaces == {"sRGB", "AdobeRGB", "unsupported"}

(***************************************************************************)
(* Collaborators the converter calls.                                      *)
(***************************************************************************)
\* SkColorSpaceXform_Base::New(sRGB, dst, kIgnore): the bound transform, or nullptr.
New(dst) == IF dst = "unsupported" THEN "nullptr" ELSE dst

\* One unpremultiplied BGRA_8888 color through the transform xf: alpha is passed
\* through, black stays black, sRGB -> sRGB is the identity.
ToDst(xf, c) ==
    CASE xf = "AdobeRGB" -> <<c[1], c[2] - (c[2] \div 4), c[3], c[4] - (c[4] \div 8)>>
      [] OTHER           -> c

\* SkColorSpaceXform::apply(kBGRA_8888, dst, kBGRA_8888, src, n, kUnpremul)
XformApply(xf, src, n) == [i \in 1..n |-> ToDst(xf, src[i])]

\* SkImage_Base::makeColorSpace(target): <<the new image>>, or <<>> for nullptr.
makeColorSpace(img, target) ==
    IF img.readable THEN <<[img EXCEPT !.cs = target]>> ELSE <<>>

\* SkMakeImageFromRasterBitmap(bm, kNever_SkCopyPixelsMode): <<image>> or <<>>.
SkMakeImageFromRasterBitmap(bm) ==
    IF bm.valid THEN <<[px |-> bm.px, cs |-> bm.cs, readable |-> bm.readable]>> ELSE <<>>

\* A shader that answers "no" to every introspection.
NoShader ==
    [isConstant |-> FALSE, lum |-> FALSE, lumColor |-> TransparentBlack,
     image |-> 0, tx |-> "kClamp", ty |-> "kClamp",
     compose |-> FALSE, A |-> 0, B |-> 0, blend |-> "kSrcOver",
     gtype |-> "kNone", colors |-> <<>>, pos |-> <<>>,
     pts |-> <<<<0, 0>>, <<0, 0>>>>, radius |-> <<0, 0>>,
     tile |-> "kClamp", flags |-> 0, lm |-> "I"]

\* SkShader::MakeColorShader(color)
MakeColorShader(c) ==
    [NoShader EXCEPT !.isConstant = TRUE, !.lum = TRUE, !.lumColor = c,
                     !.gtype = "kColor", !.colors = <<c>>]

\* SkShader::makeWithLocalMatrix(m)
makeWithLocalMatrix(node, m) == [node EXCEPT !.lm = m]

\* SkImage::makeShader(tx, ty, &local)
makeShader(img, tx, ty, local) ==
    [NoShader EXCEPT !.image = img, !.tx = tx, !.ty = ty, !.lm = local]

\* SkShader::MakeComposeShader(A, B, mode)
MakeComposeShader(a, b, mode) ==
    [NoShader EXCEPT !.compose = TRUE, !.A = a, !.B = b, !.blend = mode]

\* What every SkGradientShader factory shares: the first count stops.
GradientBase(type, colors, pos, count, flags, lm) ==
    [NoShader EXCEPT !.gtype = type, !.lum = TRUE, !.lumColor = colors[1],
                     !.colors = SubSeq(colors, 1, count), !.pos = SubSeq(pos, 1, count),
                     !.flags = flags, !.lm = lm]

\* SkGradientShader::MakeLinear(pts, colors, pos, count, mode, flags, localMatrix)
MakeLinear(pts, colors, pos, count, mode, flags, lm) ==
    [GradientBase("kLinear", colors, pos, count, flags, lm) EXCEPT !.pts = pts, !.tile = mode]

\* SkGradientShader::MakeRadial(center, radius, colors, pos, count, mode, flags, localMatrix)
MakeRadial(center, radius, colors, pos, count, mode, flags, lm) ==
    [GradientBase("kRadial", colors, pos, count, flags, lm) EXCEPT
        !.pts = <<center, <<0, 0>>>>, !.radius = <<radius, 0>>, !.tile = mode]

\* SkGradientShader::MakeSweep(cx, cy, colors, pos, count, flags, localMatrix)
MakeSweep(cx, cy, colors, pos, count, flags, lm) ==
    [GradientBase("kSweep", colors, pos, count, flags, lm) EXCEPT
        !.pts = <<<<cx, cy>>, <<0, 0>>>>]

\* SkGradientShader::MakeTwoPointConical(start, startRadius, end, endRadius, ...)
MakeTwoPointConical(start, r0, end, r1, colors, pos, count, mode, flags, lm) ==
    [GradientBase("kConical", colors, pos, count, flags, lm) EXCEPT
        !.pts = <<start, end>>, !.radius = <<r0, r1>>, !.tile = mode]

\* SkColorFilter::MakeModeFilter(color, mode)
MakeModeFilter(c, mode) == [isMode |-> TRUE, color |-> c, mode |-> mode]

(***************************************************************************)
(* The call context.                                                       *)
(***************************************************************************)
Enter(S, I, F, L) ==
    [S |-> S, I |-> I, F |-> F, L |-> L, log |-> <<>>, cc |-> <<>>, ic |-> <<>>,
     ret |-> 0, st |-> "ok"]

\* The shader overload of apply on node ref ends in branch rule with ret and st.
Done(x, ref, rule, ret, st) ==
    [x EXCEPT !.ret = ret, !.st = st,
              !.log = Append(@, [node |-> ref, rule |-> rule, ret |-> ret, st |-> st])]

\* The branch did not return: control goes on to the next test.
FallThrough(x) == [x EXCEPT !.ret = 0, !.st = "next"]

(***************************************************************************)
(* apply on a batch of n colors, and apply on one SkColor                  *)
(***************************************************************************)
apply_colors(srgb, n) == XformApply(fFromSRGB, srgb, n)

apply_color(srgb) == apply_colors(<<srgb>>, 1)[1]

(***************************************************************************)
(* apply on an SkImage: x.ret is the new image, or 0.                      *)
(***************************************************************************)
apply_image(x, img) ==
    LET m  == makeColorSpace(x.I[img], fDst)
        x1 == [x EXCEPT !.ic = Append(@, img)]
    IN  IF m = <<>>
        THEN [x1 EXCEPT !.ret = 0, !.st = "ok"]
        ELSE [x1 EXCEPT !.I = Append(@, m[1]), !.ret = Len(x.I) + 1, !.st = "ok"]

(***************************************************************************)
(* The shader overload of apply, branch by branch.                         *)
(***************************************************************************)
\* ColorShaderRule, had it overwritten the node it was given instead of making one.
ColorShaderRuleInPlace(x, ref) ==
    LET n  == x.S[ref]
        c  == apply_color(n.lumColor)
        S1 == [x.S EXCEPT ![ref] = makeWithLocalMatrix(MakeColorShader(c), n.lm)]
    IN  Done([x EXCEPT !.S = S1, !.cc = Append(@, <<"shader", <<n.lumColor>>>>)],
             ref, "color", ref, "ok")

\* isConstant() && asLuminanceColor(&color): a color shader of the converted
\* color under the node's local matrix.
ColorShaderRule(x, ref) ==
    LET n  == x.S[ref]
        c  == apply_color(n.lumColor)
        S1 == Append(x.S, makeWithLocalMatrix(MakeColorShader(c), n.lm))
    IN  Done([x EXCEPT !.S = S1, !.cc = Append(@, <<"shader", <<n.lumColor>>>>)],
             ref, "color", Len(S1), "ok")

\* isAImage(&local, xy): this->apply(img)->makeShader(xy[0], xy[1], &local).
\* A null result of apply(img) is dereferenced: sk_sp's operator-> asserts in a
\* debug build; otherwise the behaviour is undefined, and ub names the outcome
\* (the process dies, or makeShader on the null image hands back nullptr).
ImageShaderRule(x, ref, ub) ==
    LET n == x.S[ref]
        r == apply_image(x, n.image)
    IN  IF r.ret # 0
        THEN LET S1 == Append(r.S, makeShader(r.ret, n.tx, n.ty, n.lm))
             IN  Done([r EXCEPT !.S = S1], ref, "image", Len(S1), "ok")
        ELSE IF SK_DEBUG THEN Done(r, ref, "image", 0, "abort")
        ELSE IF ub = "crash" THEN Done(r, ref, "image", 0, "crash")
        ELSE Done(r, ref, "image", 0, "ok")

\* ComposeRule, had it tested (A || B): a composite around a null child.
ComposeRulePartial(x, ref, ub) ==
    LET n == x.S[ref]
        a == apply_shader(x, n.A, ub)
    IN  IF a.st # "ok" THEN Done(a, ref, "compose", 0, a.st)
        ELSE LET b == apply_shader(a, n.B, ub)
             IN  IF b.st # "ok" THEN Done(b, ref, "compose", 0, b.st)
                 ELSE IF a.ret # 0 \/ b.ret # 0
                 THEN LET S1 == Append(b.S, makeWithLocalMatrix(
                                     MakeComposeShader(a.ret, b.ret, n.blend), n.lm))
                      IN  Done([b EXCEPT !.S = S1], ref, "compose", Len(S1), "ok")
                 ELSE FallThrough(b)

\* asACompose(&compose): A first, then B; a composite only if (A && B), and
\* otherwise control leaves the if.
ComposeRule(x, ref, ub) ==
    LET n == x.S[ref]
        a == apply_shader(x, n.A, ub)
    IN  IF a.st # "ok" THEN Done(a, ref, "compose", 0, a.st)
        ELSE LET b == apply_shader(a, n.B, ub)
             IN  IF b.st # "ok" THEN Done(b, ref, "compose", 0, b.st)
                 ELSE IF a.ret # 0 /\ b.ret # 0
                 THEN LET S1 == Append(b.S, makeWithLocalMatrix(
                                     MakeComposeShader(a.ret, b.ret, n.blend), n.lm))
                      IN  Done([b EXCEPT !.S = S1], ref, "compose", Len(S1), "ok")
                 ELSE FallThrough(b)

\* BuildGradient, had the conical case passed its end point and radius first.
BuildGradientSwapsConical(type, g, xformed, lm) ==
    CASE type = "kLinear" ->
            <<MakeLinear(g.pts, xformed, g.pos, Len(g.colors), g.tile, g.flags, lm)>>
      [] type = "kRadial" ->
            <<MakeRadial(g.pts[1], g.radius[1], xformed, g.pos, Len(g.colors),
                         g.tile, g.flags, lm)>>
      [] type = "kSweep" ->
            <<MakeSweep(g.pts[1][1], g.pts[1][2], xformed, g.pos, Len(g.colors),
                        g.flags, lm)>>
      [] type = "kConical" ->
            <<MakeTwoPointConical(g.pts[2], g.radius[2], g.pts[1], g.radius[1], xformed,
                                  g.pos, Len(g.colors), g.tile, g.flags, lm)>>
      [] OTHER -> <<>>

\* switch (type): the factory call of each gradient kind; <<>> when the switch
\* leaves by break (kNone, kColor).
BuildGradient(type, g, xformed, lm) ==
    CASE type = "kLinear" ->
            <<MakeLinear(g.pts, xformed, g.pos, Len(g.colors), g.tile, g.flags, lm)>>
      [] type = "kRadial" ->
            <<MakeRadial(g.pts[1], g.radius[1], xformed, g.pos, Len(g.colors),
                         g.tile, g.flags, lm)>>
      [] type = "kSweep" ->
            <<MakeSweep(g.pts[1][1], g.pts[1][2], xformed, g.pos, Len(g.colors),
                        g.flags, lm)>>
      [] type = "kConical" ->
            <<MakeTwoPointConical(g.pts[1], g.radius[1], g.pts[2], g.radius[2], xformed,
                                  g.pos, Len(g.colors), g.tile, g.flags, lm)>>
      [] OTHER -> <<>>

\* GradientRule, had it handed gradient.fColors instead of xformed to the factory.
GradientRuleUnconverted(x, ref) ==
    LET n     == x.S[ref]
        x1    == [x EXCEPT !.cc = Append(@, <<"gradient", n.colors>>)]
        made  == BuildGradient(n.gtype, n, n.colors, n.lm)
    IN  IF made # <<>>
        THEN LET S1 == Append(x1.S, made[1])
             IN  Done([x1 EXCEPT !.S = S1], ref, "gradient", Len(S1), "ok")
        ELSE IF SK_DEBUG THEN Done(x1, ref, "gradient", 0, "abort")
        ELSE FallThrough(x1)

\* GradientRule, had the unreachable cases had no SkASSERT(false).
GradientRuleNoAssert(x, ref) ==
    LET n       == x.S[ref]
        xformed == apply_colors(n.colors, Len(n.colors))
        x1      == [x EXCEPT !.cc = Append(@, <<"gradient", n.colors>>)]
        made    == BuildGradient(n.gtype, n, xformed, n.lm)
    IN  IF made # <<>>
        THEN LET S1 == Append(x1.S, made[1])
             IN  Done([x1 EXCEPT !.S = S1], ref, "gradient", Len(S1), "ok")
        ELSE FallThrough(x1)

\* asAGradient(&gradient) twice (count, then the stops), one batch conversion of
\* the stops, then the switch.  SkASSERT(false) is fatal in a debug build and
\* compiled out otherwise, where break leaves the if.
GradientRule(x, ref) ==
    LET n       == x.S[ref]
        count   == Len(n.colors)
        xformed == apply_colors(n.colors, count)
        x1      == [x EXCEPT !.cc = Append(@, <<"gradient", n.colors>>)]
        made    == BuildGradient(n.gtype, n, xformed, n.lm)
    IN  IF made # <<>>
        THEN LET S1 == Append(x1.S, made[1])
             IN  Done([x1 EXCEPT !.S = S1], ref, "gradient", Len(S1), "ok")
        ELSE IF SK_DEBUG THEN Done(x1, ref, "gradient", 0, "abort")
        ELSE FallThrough(x1)

\* Fallback, had it handed back a copy of the node.
FallbackCopies(x, ref) ==
    Done([x EXCEPT !.S = Append(@, x.S[ref])], ref, "fallback", Len(x.S) + 1, "ok")

\* return sk_ref_sp(const_cast<SkShader*>(shader))
Fallback(x, ref) == Done(x, ref, "fallback", ref, "ok")

\* After the image test: the composite test, the gradient test, the fallback.
ComposeGradientOrFallback(x, ref, ub) ==
    LET n == x.S[ref]
        c == IF n.compose THEN ComposeRule(x, ref, ub) ELSE FallThrough(x)
    IN  IF c.st # "next" THEN c
        ELSE LET g == IF n.gtype # "kNone" THEN GradientRule(c, ref)
                                             ELSE FallThrough(c)
             IN  IF g.st # "next" THEN g ELSE Fallback(g, ref)

\* apply_shader, had it tested isAImage before the constant color.
apply_shader_ImageFirst(x, ref, ub) ==
    LET n == x.S[ref]
    IN  IF n.image # 0 THEN ImageShaderRule(x, ref, ub)
        ELSE IF n.isConstant /\ n.lum THEN ColorShaderRule(x, ref)
        ELSE ComposeGradientOrFallback(x, ref, ub)

apply_shader(x, ref, ub) ==
    LET n == x.S[ref]
    IN  IF n.isConstant /\ n.lum THEN ColorShaderRule(x, ref)
        ELSE IF n.image # 0 THEN ImageShaderRule(x, ref, ub)
        ELSE ComposeGradientOrFallback(x, ref, ub)

(***************************************************************************)
(* apply on an SkBitmap: the never-copy image of the bitmap's pixels is    *)
(* retargeted and dropped.  makeColorSpace hands back a new object, so     *)
(* SkASSERT(xformed != image) holds and is not a branch here.              *)
(***************************************************************************)
apply_bitmap(x, bm) ==
    LET image == SkMakeImageFromRasterBitmap(bm)
    IN  IF image = <<>> THEN [x EXCEPT !.ret = 0, !.st = "ok"]
        ELSE LET m == makeColorSpace(image[1], fDst)
             IN  IF m = <<>> THEN [x EXCEPT !.ret = 0, !.st = "ok"]
                 ELSE [x EXCEPT !.I = Append(@, m[1]), !.ret = Len(x.I) + 1, !.st = "ok"]

(***************************************************************************)
(* apply on an SkPaint, step by step on the copy dst.  x.ret is dst.       *)
(***************************************************************************)
\* PaintColorStep, had it had no black test.
PaintColorStepAlways(x, src) ==
    [x EXCEPT !.ret.color = apply_color(src.color),
              !.cc = Append(@, <<"paint", <<src.color>>>>)]

\* if (src.getColor() & 0xffffff) dst.setColor(this->apply(src.getColor()))
PaintColorStep(x, src) ==
    IF RGBBits(src.color) # 0
    THEN [x EXCEPT !.ret.color = apply_color(src.color),
                   !.cc = Append(@, <<"paint", <<src.color>>>>)]
    ELSE x

\* if (auto shader = src.getShader()) dst.setShader(this->apply(shader))
PaintShaderStep(x, src, ub) ==
    IF src.shader # 0
    THEN LET r == apply_shader(x, src.shader, ub)
         IN  [r EXCEPT !.ret = [x.ret EXCEPT !.shader = r.ret]]
    ELSE x

\* PaintFilterStep, had it rebuilt the filter from the unconverted color.
PaintFilterStepUnconverted(x, src) ==
    IF src.cf # 0 /\ x.F[src.cf].isMode
    THEN LET cf == x.F[src.cf]
             F1 == Append(x.F, MakeModeFilter(cf.color, cf.mode))
         IN  [x EXCEPT !.F = F1, !.ret.cf = Len(F1)]
    ELSE x

\* if (cf->asColorMode(&color, &mode)) dst.setColorFilter(MakeModeFilter(...))
PaintFilterStep(x, src) ==
    IF src.cf # 0 /\ x.F[src.cf].isMode
    THEN LET cf == x.F[src.cf]
             F1 == Append(x.F, MakeModeFilter(apply_color(cf.color), cf.mode))
         IN  [x EXCEPT !.F = F1, !.cc = Append(@, <<"filter", <<cf.color>>>>), !.ret.cf = Len(F1)]
    ELSE x

\* SkDrawLooper::makeColorSpace(xformer): a new looper whose layer paint went
\* through the converter's paint overload (the layer paint holds a color only).
LooperMakeColorSpace(x, looper) ==
    LET c  == x.L[looper].color
        c1 == IF RGBBits(c) # 0 THEN apply_color(c) ELSE c
        L1 == Append(x.L, [color |-> c1])
    IN  [x EXCEPT !.L = L1, !.cc = IF RGBBits(c) # 0 THEN Append(@, <<"looper", <<c>>>>) ELSE @,
                  !.ret.looper = Len(L1)]

\* if (auto looper = src.getDrawLooper()) dst.setDrawLooper(looper->makeColorSpace(this))
PaintLooperStep(x, src) ==
    IF src.looper # 0 THEN LooperMakeColorSpace(x, src.looper) ELSE x

apply_paint(x, src, ub) ==
    LET x0 == [x EXCEPT !.ret = src]
        x1 == PaintColorStep(x0, src)
        x2 == PaintShaderStep(x1, src, ub)
    IN  IF x2.st # "ok" THEN x2
        ELSE PaintLooperStep(PaintFilterStep(x2, src), src)

(***************************************************************************)
(* The scene the caller owns when the converter is made.                   *)
(***************************************************************************)
StopColors == <<Red, Green, Green, Blue>>

\* Offsets in tenths: 0.0, 0.3, 0.3, 1.0
StopPos == <<0, 3, 3, 10>>

InitImages ==
    << [px |-> "a", cs |-> "sRGB", readable |-> TRUE],
       [px |-> "b", cs |-> "sRGB", readable |-> FALSE] >>

InitFilters ==
    << MakeModeFilter(Red, "kSrcIn"),
       [isMode |-> FALSE, color |-> TransparentBlack, mode |-> "kDst"],
       MakeModeFilter(Black, "kModulate") >>

InitLoopers == << [color |-> Blue], [color |-> HalfBlack] >>

LinearGradient ==
    MakeLinear(<<<<0, 0>>, <<10, 5>>>>, StopColors, StopPos, 4, "kMirror", 1, "M1")

InitShaders ==
    << makeWithLocalMatrix(MakeColorShader(Red), "M1"),
       makeShader(1, "kClamp", "kRepeat", "M2"),
       makeShader(2, "kMirror", "kClamp", "I"),
       makeWithLocalMatrix(MakeComposeShader(1, 2, "kMultiply"), "M1"),
       makeWithLocalMatrix(MakeComposeShader(2, 3, "kSrcOver"), "M2"),
       LinearGradient,
       MakeRadial(<<3, 4>>, 7, <<Grey, Black>>, <<0, 10>>, 2, "kRepeat", 0, "M2"),
       MakeSweep(5, 6, <<Blue, Red, Blue>>, <<0, 5, 10>>, 3, 1, "I"),
       MakeTwoPointConical(<<1, 2>>, 3, <<4, 5>>, 6, <<Red, FaintBlue>>, <<2, 8>>, 2,
                           "kClamp", 0, "M1"),
       [NoShader EXCEPT !.lm = "M2"],
       [makeShader(1, "kRepeat", "kMirror", "M1") EXCEPT
            !.isConstant = TRUE, !.lum = TRUE, !.lumColor = Green],
       [makeWithLocalMatrix(MakeComposeShader(1, 6, "kXor"), "M2") EXCEPT
            !.image = 1, !.tx = "kMirror", !.ty = "kRepeat"],
       [LinearGradient EXCEPT !.compose = TRUE, !.A = 3, !.B = 1, !.blend = "kPlus"],
       [NoShader EXCEPT !.gtype = "kColor", !.colors = <<Red>>, !.lm = "M1"],
       makeWithLocalMatrix(MakeComposeShader(4, 6, "kScreen"), "I"),
       makeWithLocalMatrix(MakeComposeShader(5, 10, "kDstIn"), "M1"),
       [MakeSweep(1, 1, <<Green, Grey>>, <<0, 10>>, 2, 0, "M2") EXCEPT !.isConstant = TRUE,
            !.lum = FALSE],
       [NoShader EXCEPT !.lum = TRUE, !.lumColor = Grey] >>

Paint(color, shader, cf, looper) ==
    [color |-> color, shader |-> shader, cf |-> cf, looper |-> looper]

TestPaints ==
    { Paint(Black, 0, 0, 0), Paint(TransparentBlack, 10, 2, 1), Paint(HalfBlack, 14, 1, 2),
      Paint(Red, 6, 1, 0), Paint(FaintBlue, 3, 3, 0), Paint(Grey, 5, 0, 1) }

TestBitmaps ==
    { [px |-> "c", cs |-> "sRGB", valid |-> TRUE, readable |-> TRUE],
      [px |-> "d", cs |-> "sRGB", valid |-> FALSE, readable |-> TRUE],
      [px |-> "e", cs |-> "sRGB", valid |-> TRUE, readable |-> FALSE] }

TestBatches == { StopColors, <<Black, Grey, FaintBlue, Red>> }

\* What dereferencing a null sk_sp can do in this build.
UBOutcomes == IF SK_DEBUG THEN {"null"} ELSE {"crash", "null"}

(***************************************************************************)
(* What a result is, apart from where it was allocated.                    *)
(***************************************************************************)
UnfoldShader(S, I, ref) ==
    IF ref = 0 THEN <<>>
    ELSE LET n == S[ref]
         IN  << [n   |-> [n EXCEPT !.A = 0, !.B = 0, !.image = 0],
                 a   |-> UnfoldShader(S, I, n.A),
                 b   |-> UnfoldShader(S, I, n.B),
                 img |-> IF n.image = 0 THEN <<>> ELSE <<I[n.image]>>] >>

Deref(H, ref) == IF ref = 0 THEN <<>> ELSE <<H[ref]>>

NoOp ==
    [name |-> "none", arg |-> 0, ub |-> "null", ret |-> 0, st |-> "ok",
     log |-> <<>>, cc |-> <<>>, ic |-> <<>>, pre |-> [S |-> 0, I |-> 0, F |-> 0, L |-> 0]]

OpOf(name, arg, ub, r) ==
    [name |-> name, arg |-> arg, ub |-> ub, ret |-> r.ret, st |-> r.st,
     log |-> r.log, cc |-> r.cc, ic |-> r.ic,
     pre |-> [S |-> Len(shaders), I |-> Len(images), F |-> Len(filters), L |-> Len(loopers)]]

(***************************************************************************)
(* The state machine: Make once, then apply calls until the process dies.  *)
(***************************************************************************)
Init ==
    /\ SK_DEBUG \in BOOLEAN
    /\ fDst = "nullptr"
    /\ fFromSRGB = "nullptr"
    /\ shaders = InitShaders
    /\ images = InitImages
    /\ filters = InitFilters
    /\ loopers = InitLoopers
    /\ op = NoOp
    /\ nops = 0
    /\ seen = [color |-> {}, batch |-> {}, image |-> {}, bitmap |-> {},
               shader |-> {}, paint |-> {}]

\* SkColorSpaceXformer::Make(dst)
Make ==
    /\ fFromSRGB = "nullptr"
    /\ \E dst \in ColorSpaces :
          LET fromSRGB == New(dst)
          IN  IF fromSRGB = "nullptr"
              THEN /\ op' = [NoOp EXCEPT !.name = "Make", !.arg = dst]
                   /\ UNCHANGED <<fDst, fFromSRGB>>
              ELSE /\ fDst' = dst
                   /\ fFromSRGB' = fromSRGB
                   /\ op' = [NoOp EXCEPT !.name = "Make", !.arg = dst, !.ret = 1]
    /\ UNCHANGED <<SK_DEBUG, shaders, images, filters, loopers, nops, seen>>

Live == fFromSRGB # "nullptr" /\ op.st = "ok" /\ nops < MaxOps

Commit(r) ==
    /\ shaders' = r.S
    /\ images' = r.I
    /\ filters' = r.F
    /\ loopers' = r.L
    /\ nops' = nops + 1
    /\ UNCHANGED <<SK_DEBUG, fDst, fFromSRGB>>

Here == Enter(shaders, images, filters, loopers)

ApplyColor ==
    /\ Live
    /\ \E c \in TestColors :
          LET r == [Here EXCEPT !.ret = apply_color(c), !.cc = << <<"caller", <<c>>>> >>]
          IN  /\ Commit(r)
              /\ op' = OpOf("color", c, "null", r)
              /\ seen' = [seen EXCEPT !.color = @ \cup {<<c, r.ret>>}]

ApplyColors ==
    /\ Live
    /\ \E base \in TestBatches, n \in 0..MaxBatch :
          LET srgb == SubSeq(base, 1, n)
              r == [Here EXCEPT !.ret = apply_colors(srgb, n), !.cc = << <<"caller", srgb>> >>]
          IN  /\ Commit(r)
              /\ op' = OpOf("batch", srgb, "null", r)
              /\ seen' = [seen EXCEPT !.batch = @ \cup {<<srgb, r.ret>>}]

ApplyImage ==
    /\ Live
    /\ \E img \in 1..Len(images) :
          LET r == apply_image(Here, img)
          IN  /\ Commit(r)
              /\ op' = OpOf("image", img, "null", r)
              /\ seen' = [seen EXCEPT !.image = @ \cup {<<images[img], Deref(r.I, r.ret)>>}]

ApplyBitmap ==
    /\ Live
    /\ \E bm \in TestBitmaps :
          LET r == apply_bitmap(Here, bm)
          IN  /\ Commit(r)
              /\ op' = OpOf("bitmap", bm, "null", r)
              /\ seen' = [seen EXCEPT !.bitmap = @ \cup {<<bm, Deref(r.I, r.ret)>>}]

ApplyShader ==
    /\ Live
    /\ \E ref \in 1..Len(shaders), ub \in UBOutcomes :
          LET r == apply_shader(Here, ref, ub)
          IN  /\ Commit(r)
              /\ op' = OpOf("shader", ref, ub, r)
              /\ seen' = [seen EXCEPT !.shader = @ \cup
                            {<< <<UnfoldShader(shaders, images, ref), ub>>,
                                [st |-> r.st, same |-> r.ret = ref,
                                 tree |-> UnfoldShader(r.S, r.I, r.ret)] >>}]

ApplyPaint ==
    /\ Live
    /\ \E src \in TestPaints, ub \in UBOutcomes :
          LET r == apply_paint(Here, src, ub)
          IN  /\ Commit(r)
              /\ op' = OpOf("paint", src, ub, r)
              /\ seen' = [seen EXCEPT !.paint = @ \cup
                            {<< <<src, ub>>,
                                [st |-> r.st, color |-> r.ret.color,
                                 same |-> <<r.ret.shader = src.shader, r.ret.cf = src.cf,
                                            r.ret.looper = src.looper>>,
                                 shader |-> UnfoldShader(r.S, r.I, r.ret.shader),
                                 cf |-> Deref(r.F, r.ret.cf),
                                 looper |-> Deref(r.L, r.ret.looper)] >>}]

Next == Make \/ ApplyColor \/ ApplyColors \/ ApplyImage \/ ApplyBitmap \/ ApplyShader \/ ApplyPaint

Spec == Init /\ [][Next]_vars

(***************************************************************************)
(* Vocabulary of the properties.  Entries are the shader apply calls of    *)
(* the last operation, nested ones included.                               *)
(***************************************************************************)
Entries == {op.log[i] : i \in 1..Len(op.log)}

Node(e) == shaders[e.node]

IsFlat(n) == n.isConstant /\ n.lum

IsImageBacked(n) == ~IsFlat(n) /\ n.image # 0

IsComposite(n) == ~IsFlat(n) /\ n.image = 0 /\ n.compose

AllNo(n) == ~IsFlat(n) /\ n.image = 0 /\ ~n.compose /\ n.gtype = "kNone"

RealGradients == {"kLinear", "kRadial", "kSweep", "kConical"}

\* A child of the composite e was converted and came back as nullptr.
ChildNone(e) ==
    \E c \in Entries : c.node \in {Node(e).A, Node(e).B} /\ c.st = "ok" /\ c.ret = 0

\* The call passed the gradient test with a kind the switch has no factory for.
EnteredUnreachableKind(e) ==
    /\ e.rule \in {"gradient", "fallback"}
    /\ Node(e).gtype \notin RealGradients
    /\ Node(e).gtype # "kNone"

\* The introspections a node answers "yes" to.
Answers(n) ==
    (IF IsFlat(n) THEN {"flat"} ELSE {}) \cup
    (IF n.image # 0 THEN {"image"} ELSE {}) \cup
    (IF n.compose THEN {"composite"} ELSE {}) \cup
    (IF n.gtype # "kNone" THEN {n.gtype} ELSE {})

MultiYes(n) == Cardinality(Answers(n)) >= 2

\* The highest-priority introspection a node answers "yes" to.
FirstMatch(n) ==
    IF IsFlat(n) THEN "color"
    ELSE IF n.image # 0 THEN "image"
    ELSE IF n.compose THEN "compose"
    ELSE IF n.gtype # "kNone" THEN "gradient"
    ELSE "fallback"

KindOf(n) ==
    IF IsFlat(n) THEN "flat"
    ELSE IF n.image # 0 THEN "image"
    ELSE IF n.compose THEN "composite"
    ELSE IF n.gtype \in RealGradients THEN n.gtype
    ELSE "opaque"

\* The non-color parameters of a node seen as kind k.
Params(n, k) ==
    CASE k = "flat"      -> <<n.lm>>
      [] k = "image"     -> <<n.tx, n.ty, n.lm>>
      [] k = "composite" -> <<n.blend, n.lm>>
      [] OTHER           -> <<n.pts, n.radius, n.tile, n.flags, n.lm>>

RECURSIVE SameStructure(_, _)
SameStructure(i, o) ==
    \/ i = o
    \/ /\ i # 0
       /\ o # 0
       /\ LET a == shaders[i]
              b == shaders[o]
              k == KindOf(b)
          IN  /\ k \in Answers(a)
              /\ Params(a, k) = Params(b, k)
              /\ k = "composite" => /\ SameStructure(a.A, b.A)
                                     /\ SameStructure(a.B, b.B)

PrefixKept(old, new) ==
    /\ Len(new) >= Len(old)
    /\ \A i \in 1..Len(old) : new[i] = old[i]

Functional(pairs) == \A p, q \in pairs : p[1] = q[1] => p[2] = q[2]

C2_ImageFailureYieldsNone ==
    \A e \in Entries :
        IsImageBacked(Node(e)) =>
            LET m == makeColorSpace(images[Node(e).image], fDst)
            IN  IF m = <<>>
                THEN e.st = "ok" /\ e.ret = 0
                ELSE /\ e.st = "ok"
                     /\ e.ret # 0
                     /\ shaders[e.ret].image # 0
                     /\ images[shaders[e.ret].image] = m[1]

(***************************************************************************)
(* C3                                                                      *)
(***************************************************************************)
\* C3: a node that answers "no" to all four introspections comes back as the
\* same reference, with no color or image conversion made and no node allocated.
C3_UnrecognizedReturnsSameReference ==
    /\ \A e \in Entries :
          AllNo(Node(e)) => (e.st = "ok" /\ e.rule = "fallback" /\ e.ret = e.node)
    /\ (op.name = "shader" /\ AllNo(shaders[op.arg])) =>
          /\ op.ret = op.arg
          /\ op.cc = <<>>
          /\ op.ic = <<>>
          /\ Len(shaders) = op.pre.S
          /\ Len(images) = op.pre.I

C3_Witness ==
    /\ op.name = "shader"
    /\ AllNo(shaders[op.arg])
    /\ op.ret = op.arg
    /\ fDst = "AdobeRGB"

(***************************************************************************)
(* C4                                                                      *)
(***************************************************************************)
\* C4: a returned node has a variant kind the input answers to and, as that
\* kind, the input's tile modes, blend mode, local matrix, gradient geometry and
\* flags; so have the children of a rebuilt composite, recursively.
C4_StructurePreserved ==
    \A e \in Entries :
        (e.st = "ok" /\ e.ret # 0) => SameStructure(e.node, e.ret)

C4_Witness ==
    /\ op.name = "shader"
    /\ op.st = "ok"
    /\ op.ret > op.pre.S
    /\ KindOf(shaders[op.arg]) = "composite"
    /\ KindOf(shaders[op.ret]) = "composite"
    /\ \E e \in Entries : e.rule = "gradient" /\ e.ret = shaders[op.ret].B

(***************************************************************************)
(* C5                                                                      *)
(***************************************************************************)
\* C5: the gradient built from a gradient with N stops has N stops, the same
\* offsets in the same order, and as i-th color the scalar conversion of the
\* i-th input color.
C5_GradientStopsPreserved ==
    \A e \in Entries :
        (e.rule = "gradient" /\ e.st = "ok") =>
            /\ e.ret # 0
            /\ LET in  == Node(e)
                   out == shaders[e.ret]
               IN  /\ Len(out.colors) = Len(in.colors)
                   /\ Len(out.pos) = Len(in.colors)
                   /\ out.pos = in.pos
                   /\ out.gtype = in.gtype
                   /\ \A i \in 1..Len(in.colors) : out.colors[i] = apply_color(in.colors[i])

C5_Witness ==
    /\ op.name = "shader"
    /\ op.st = "ok"
    /\ fDst = "AdobeRGB"
    /\ shaders[op.arg].colors = StopColors
    /\ shaders[op.arg].pos = StopPos
    /\ \E e \in Entries : e.node = op.arg /\ e.rule = "gradient" /\ e.ret = op.ret
    /\ shaders[op.ret].colors # StopColors

(***************************************************************************)
(* C6                                                                      *)
(***************************************************************************)
\* C6: a paint whose color has zero RGB bits keeps that color bit for bit and
\* the paint's color is not handed to the conversion; any other paint color
\* comes back as its scalar conversion.
C6_BlackPaintColorUntouched ==
    (op.name = "paint" /\ op.st = "ok") =>
        IF RGBBits(op.arg.color) = 0
        THEN /\ op.ret.color = op.arg.color
             /\ \A i \in 1..Len(op.cc) : op.cc[i][1] # "paint"
        ELSE /\ op.ret.color = apply_color(op.arg.color)
             /\ \E i \in 1..Len(op.cc) : op.cc[i] = <<"paint", <<op.arg.color>>>>

C6_Witness ==
    /\ op.name = "paint"
    /\ op.st = "ok"
    /\ op.arg.color = HalfBlack
    /\ op.ret.color = HalfBlack

(***************************************************************************)
(* C7                                                                      *)
(***************************************************************************)
\* C7: a mode color filter (color c, mode m) comes back as a mode filter of the
\* converted c and the same m; any other color filter comes back as the same
\* reference, unmodified.
C7_ModeFilterConverted ==
    (op.name = "paint" /\ op.st = "ok" /\ op.arg.cf # 0) =>
        LET cf == InitFilters[op.arg.cf]
        IN  /\ filters[op.arg.cf] = cf
            /\ IF cf.isMode
               THEN /\ op.ret.cf > op.pre.F
                    /\ filters[op.ret.cf] =
                          [isMode |-> TRUE, color |-> apply_color(cf.color), mode |-> cf.mode]
               ELSE op.ret.cf = op.arg.cf

C7_Witness ==
    /\ op.name = "paint"
    /\ op.st = "ok"
    /\ fDst = "AdobeRGB"
    /\ op.arg.cf # 0
    /\ InitFilters[op.arg.cf].isMode
    /\ filters[op.ret.cf].color # InitFilters[op.arg.cf].color

(***************************************************************************)
(* C8                                                                      *)
(***************************************************************************)
\* C8: once made, the converter keeps its destination and its transform; an apply
\* call changes no object that existed before it; and equal inputs have equal
\* results whatever was applied before.
C8_ConverterAndInputsImmutable ==
    /\ [][fFromSRGB # "nullptr" =>
            /\ fDst' = fDst
            /\ fFromSRGB' = fFromSRGB
            /\ PrefixKept(shaders, shaders')
            /\ PrefixKept(images, images')
            /\ PrefixKept(filters, filters')
            /\ PrefixKept(loopers, loopers')]_vars
    /\ [](/\ Functional(seen.color)
          /\ Functional(seen.batch)
          /\ Functional(seen.image)
          /\ Functional(seen.bitmap)
          /\ Functional(seen.shader)
          /\ Functional(seen.paint))

C8_Witness ==
    /\ nops = 2
    /\ op.name = "shader"
    /\ op.st = "ok"
    /\ op.ret > op.pre.S
    /\ op.pre.S > Len(InitShaders)
    /\ Cardinality(seen.shader) = 1
    /\ seen.paint = {}
    /\ fDst = "AdobeRGB"

Deciding(e) ==
    LET n == Node(e)
    IN  IF IsFlat(n) THEN "color"
        ELSE IF n.image # 0 THEN "image"
        ELSE IF n.compose /\ ~ChildNone(e) THEN "compose"
        ELSE IF n.gtype \in RealGradients THEN "gradient"
        ELSE "fallback"

====
